---------------------------- MODULE Spec2Model ----------------------------
(***************************************************************************)
(* AirNav FBO scraper (scripts/scrape_airnav_fbos.py): fetch_url with its  *)
(* retry and backoff policy, the fragment loop of scrape_airport with name *)
(* resolution and deduplication, and the airport loop of main with pacing. *)
(*                                                                         *)
(* Python strings are sequences of one-character strings, so that lower(), *)
(* strip(), title(), replace() and substring tests are computed as Python  *)
(* computes them.  A row of the FBO section is the record of what the      *)
(* regular expressions of the fragment loop capture from it.               *)
(***************************************************************************)
EXTENDS Integers, Sequences, FiniteSets, TLC

(***************************************************************************)
(* Python string primitives                                                *)
(***************************************************************************)
UpperChars ==
  <<"A","B","C","D","E","F","G","H","I","J","K","L","M","N","O","P","Q","R","S","T","U","V","W","X","Y","Z">>

LowerChars ==
  <<"a","b","c","d","e","f","g","h","i","j","k","l","m","n","o","p","q","r","s","t","u","v","w","x","y","z">>

IsUpper(c) == \E k \in 1..26 : UpperChars[k] = c

IsLower(c) == \E k \in 1..26 : LowerChars[k] = c

ToLower(c) == IF IsUpper(c) THEN LowerChars[CHOOSE k \in 1..26 : UpperChars[k] = c] ELSE c

ToUpper(c) == IF IsLower(c) THEN UpperChars[CHOOSE k \in 1..26 : LowerChars[k] = c] ELSE c

\* str.lower()
Lower(s) == [k \in 1..Len(s) |-> ToLower(s[k])]

\* sub in s
Contains(s, sub) ==
  \E k \in 0..(Len(s) - Len(sub)) : SubSeq(s, k + 1, k + Len(sub)) = sub

\* str.strip(): leading and trailing whitespace removed
Strip(s) ==
  LET ink == {k \in 1..Len(s) : s[k] # " "}
  IN  IF ink = {} THEN <<>>
      ELSE SubSeq(s, CHOOSE a \in ink : \A b \in ink : a <= b,
                     CHOOSE a \in ink : \A b \in ink : a >= b)

\* str.replace(old, new): left to right, non-overlapping occurrences
RECURSIVE Replace(_, _, _)
Replace(s, old, new) ==
  IF Len(s) < Len(old) THEN s
  ELSE IF SubSeq(s, 1, Len(old)) = old
       THEN new \o Replace(SubSeq(s, Len(old) + 1, Len(s)), old, new)
       ELSE <<s[1]>> \o Replace(Tail(s), old, new)

\* str.title(): a cased character is upper-cased when the character before
\* it is not cased, lower-cased otherwise
Title(s) ==
  [k \in 1..Len(s) |->
     IF k > 1 /\ (IsUpper(s[k - 1]) \/ IsLower(s[k - 1]))
     THEN ToLower(s[k]) ELSE ToUpper(s[k])]

(***************************************************************************)
(* Program constants                                                       *)
(***************************************************************************)
\* lines 28-51
AIRPORTS ==
  <<
     <<"K","A","T","L">>, <<"K","L","A","X">>, <<"K","O","R","D">>, <<"K","D","F","W">>,
     <<"K","D","E","N">>, <<"K","J","F","K">>, <<"K","S","F","O">>, <<"K","L","A","S">>,
     <<"K","S","E","A">>, <<"K","M","C","O">>, <<"K","E","W","R">>, <<"K","P","H","X">>,
     <<"K","M","I","A">>, <<"K","I","A","H">>, <<"K","B","O","S">>, <<"K","M","S","P">>,
     <<"K","D","T","W">>, <<"K","F","L","L">>, <<"K","P","H","L">>, <<"K","L","G","A">>,
     <<"K","B","W","I">>, <<"K","S","L","C">>, <<"K","D","C","A">>, <<"K","S","A","N">>,
     <<"K","T","P","A">>, <<"K","A","U","S">>, <<"K","M","D","W">>, <<"K","H","N","L">>,
     <<"K","S","T","L">>, <<"K","B","N","A">>, <<"K","O","A","K">>, <<"K","S","M","F">>,
     <<"K","P","D","X">>, <<"K","S","J","C">>, <<"K","M","C","I">>, <<"K","C","L","T">>,
     <<"K","R","D","U">>, <<"K","S","A","T">>, <<"K","C","L","E">>, <<"K","P","I","T">>,
     <<"K","I","N","D">>, <<"K","C","M","H">>, <<"K","P","B","I">>, <<"K","A","B","Q">>,
     <<"K","A","N","C">>, <<"K","O","N","T">>, <<"K","S","N","A">>, <<"K","B","U","R">>,
     <<"K","F","A","T">>, <<"K","T","E","B">>, <<"K","V","N","Y">>, <<"K","H","P","N">>,
     <<"K","S","D","L">>, <<"K","A","P","A">>, <<"K","A","D","S">>, <<"K","P","D","K">>,
     <<"K","O","P","F">>, <<"K","F","X","E">>, <<"K","B","C","T">>, <<"K","P","T","K">>,
     <<"K","F","R","G">>, <<"K","B","E","D">>, <<"K","P","W","K">>, <<"K","C","R","Q">>,
     <<"K","S","M","O">>, <<"K","M","M","U">>, <<"K","C","D","W">>, <<"K","H","W","D">>,
     <<"K","S","Q","L">>, <<"K","S","G","R">>, <<"K","D","W","H">>, <<"K","A","F","W">>,
     <<"K","F","T","W">>, <<"K","F","F","Z">>, <<"K","I","W","A">>, <<"K","D","V","T">>,
     <<"K","C","G","Z">>, <<"K","C","H","D">>, <<"K","I","S","P">>, <<"K","B","J","C">>,
     <<"K","E","G","E">>, <<"K","A","S","E">>, <<"K","T","E","X">>, <<"K","G","U","C">>,
     <<"K","M","T","J">>, <<"K","G","J","T">>, <<"K","C","Y","S">>, <<"K","L","A","R">>,
     <<"K","B","Z","N">>, <<"K","M","S","O">>, <<"K","B","I","L">>, <<"K","G","T","F">>,
     <<"K","H","L","N">>, <<"K","F","C","A">>, <<"K","G","P","I">>, <<"K","I","D","A">>,
     <<"K","T","W","F">>, <<"K","P","I","H">>, <<"K","S","U","N">>, <<"K","J","A","C">>,
     <<"K","R","K","S">>, <<"K","O","G","D">>, <<"K","P","V","U">>, <<"K","C","D","C">>,
     <<"K","S","G","U">>, <<"K","P","R","C">>, <<"K","F","L","G">>, <<"K","I","F","P">>,
     <<"K","T","U","S">>, <<"K","G","Y","R">>, <<"K","G","E","U">>, <<"K","F","F","C">>,
     <<"K","L","Z","U">>, <<"K","R","Y","Y">>, <<"K","C","N","I">>, <<"K","P","D","K">>,
     <<"K","A","H","N">>, <<"K","S","A","V">>, <<"K","J","A","X">>, <<"K","D","A","B">>,
     <<"K","O","B","E">>, <<"K","L","E","E">>, <<"K","L","A","L">>, <<"K","A","P","F">>,
     <<"K","R","S","W">>, <<"K","S","P","G">>, <<"K","P","I","E">>, <<"K","S","R","Q">>,
     <<"K","V","R","B">>, <<"K","P","M","P">>, <<"K","H","W","O">>, <<"K","T","M","B">>,
     <<"K","M","T","H">>, <<"K","E","Y","W">>, <<"K","I","S","M">>, <<"K","O","R","L">>,
     <<"K","S","F","B">>, <<"K","M","L","B">>
  >>

\* lines 54-59
NAME_BLACKLIST ==
  <<
     <<"A","i","r"," ","E","l","i","t","e">>,
     <<"I","S","-","B","A","H">>,
     <<"M","u","l","t","i"," ","S","e","r","v","i","c","e">>,
     <<"N","A","T","A">>,
     <<"S","a","f","e","t","y">>,
     <<"C","u","s","t","o","m","s">>,
     <<"D","A","S","S","P">>,
     <<"A","E","G"," ","F","u","e","l","s">>,
     <<"E","v","e","r","e","s","t">>,
     <<"C","A","A">>,
     <<"U",".","S",".">>,
     <<"U","V","a","i","r">>,
     <<"A","v","c","a","r","d">>,
     <<"W","o","r","l","d"," ","F","u","e","l">>,
     <<"P","h","i","l","l","i","p","s">>,
     <<"C","o","l","t">>,
     <<"C","o","n","t","r","a","c","t">>,
     <<"A","v","i","a","t","i","o","n"," ","C","a","r","d">>,
     <<"M","S","A">>,
     <<"G","o"," ","R","e","n","t","a","l","s">>,
     <<"A","R","G","U","S">>,
     <<"W","y","v","e","r","n">>,
     <<"T","S","A">>,
     <<"R","e","g","i","s","t","e","r","e","d">>,
     <<"1","d","o","t">>
  >>

\* default of fetch_url's retry_count parameter
retry_count == 3

\* random.uniform(2.0, 4.0): the pacing delay of main, in whole time units
MinDelay == 2

MaxDelay == 4

\* any(b.lower() in name.lower() for b in NAME_BLACKLIST)
Blacklisted(name) ==
  LET low == Lower(name)
  IN  \E k \in 1..Len(NAME_BLACKLIST) : Contains(low, Lower(NAME_BLACKLIST[k]))

(***************************************************************************)
(* Rows of the FBO section.  A regular expression that does not match      *)
(* captures NoMatch; every capture group of the loop is non-empty.         *)
(***************************************************************************)
NoMatch == <<>>

Row(id, info, img, mail) ==
  [id_match |-> id, more_info |-> info, img_match |-> img, email_match |-> mail]

ArgusPlatinum == <<"A","R","G","U","S"," ","P","l","a","t","i","n","u","m">>

AtlanticAviation == <<"A","t","l","a","n","t","i","c"," ","A","v","i","a","t","i","o","n">>

Signature == <<"S","i","g","n","a","t","u","r","e">>

MailA == <<"a","@","b">>

MailC == <<"c","@","d">>

\* logo alt text is a badge, the name falls back to the id: "Jet Aviation East"
RowArgus == Row(<<"J","E","T","_","A","V","_","E">>, NoMatch, ArgusPlatinum, MailA)

\* id-derived name "Jet" is shorter than 4 characters
RowShort == Row(<<"J","E","T">>, NoMatch, NoMatch, MailA)

\* caption and logo both present
RowAtlantic == Row(<<"A","T","L">>, AtlanticAviation, Signature, MailA)

\* logo only, no email
RowLogo == Row(<<"S","I","G">>, NoMatch, Signature, NoMatch)

\* caption of whitespace only, logo alt text with leading whitespace
RowBlankCaption == Row(<<"S","I","G","_","2">>, <<" ">>, <<" ">> \o Signature, NoMatch)

\* navigation anchor
RowLinkAnchor == Row(<<"L","I","N","K","_","1">>, AtlanticAviation, NoMatch, MailC)

\* no /airport/{code}/{ID} link
RowNoId == Row(NoMatch, AtlanticAviation, NoMatch, MailA)

\* badge logo and an id whose derived name "Tsa Fbo" is blacklisted
RowTsa == Row(<<"T","S","A","_","F","B","O">>, NoMatch, ArgusPlatinum, MailC)

\* id only: "West Aviation"
RowWestAv == Row(<<"W","E","S","T","_","A","V">>, NoMatch, NoMatch, MailC)

\* The rows a page is built from
Fragments ==
  { RowArgus, RowShort, RowAtlantic, RowLogo, RowBlankCaption,
    RowLinkAnchor, RowNoId, RowTsa, RowWestAv }

\* Longest row sequence of a page
MaxRows == 3

RECURSIVE SeqsUpTo(_, _)
SeqsUpTo(S, n) ==
  IF n = 0 THEN {<<>>}
  ELSE LET shorter == SeqsUpTo(S, n - 1)
       IN  shorter \cup {Append(q, x) : q \in {p \in shorter : Len(p) = n - 1}, x \in S}

RowSeqs == SeqsUpTo(Fragments, MaxRows)

(***************************************************************************)
(* scrape_airport: one iteration of the fragment loop                      *)
(***************************************************************************)
\* lines 126-131: the FBO id is captured and is not a comment or link anchor
IdentityOk(row) ==
  /\ row.id_match # NoMatch
  /\ ~ Contains(row.id_match, <<"#">>)
  /\ ~ Contains(Lower(row.id_match), <<"c","o","m","m","e","n","t">>)
  /\ ~ Contains(Lower(row.id_match), <<"l","i","n","k">>)

\* Method 3: the name derived from the FBO id
IdName(fbo_id) ==
  LET titled == Title(Replace(fbo_id, <<"_">>, <<" ">>))
      av     == Replace(titled, <<" ","A","v">>, <<" ","A","v","i","a","t","i","o","n">>)
      e      == Replace(av, <<" ","E">>, <<" ","E","a","s","t">>)
      w      == Replace(e, <<" ","W">>, <<" ","W","e","s","t">>)
  IN  Replace(w, <<" ","S">>, <<" ","S","o","u","t","h">>)

\* the alt text taken without the blacklist test
LogoName_unfiltered(row) ==
  IF row.img_match # NoMatch THEN Strip(row.img_match) ELSE <<>>

\* Method 2: the alt text of the logo image, unless blacklisted
LogoName(row) ==
  IF row.img_match # NoMatch /\ ~ Blacklisted(Strip(row.img_match))
  THEN Strip(row.img_match) ELSE <<>>

\* Methods 1 to 3 in order; an empty name is "not name"
ResolveName(row) ==
  LET m1 == IF row.more_info # NoMatch THEN Strip(row.more_info) ELSE <<>>
      m2 == IF m1 = <<>> THEN LogoName(row) ELSE m1
  IN  IF m2 = <<>> THEN IdName(row.id_match) ELSE m2

\* lines 127-160: the row reaches the field extraction
PassesFilters(row) ==
  /\ IdentityOk(row)
  /\ ~ Blacklisted(ResolveName(row))
  /\ Len(ResolveName(row)) >= 4

\* a key that ignores the email
FboKey_nameOnly(airport, name, email) == airport \o <<":">> \o name

\* line 171: f"{airport}:{email}" if email else f"{airport}:{name}"
FboKey(airport, name, email) ==
  IF email # <<>> THEN airport \o <<":">> \o email ELSE airport \o <<":">> \o name

\* the record appended at lines 180-202 (fields taken from the page)
FboRecord(airport, name, email) ==
  [airport_code |-> airport, name |-> name, email |-> email]

\* the filters and the name of every row a page can hold, computed once
Resolved ==
  [row \in Fragments |->
     [passes |-> PassesFilters(row),
      name   |-> IF IdentityOk(row) THEN ResolveName(row) ELSE <<>>]]

\* a loop that never records the key
RowStep_noSeen(airport, row, seen, out) ==
  IF ~ Resolved[row].passes THEN [seen |-> seen, fbos |-> out, emit |-> FALSE]
  ELSE [seen |-> seen,
        fbos |-> Append(out, FboRecord(airport, Resolved[row].name, row.email_match)),
        emit |-> TRUE]

\* lines 124-202: the effect of one row on seen_fbos and fbos
RowStep(airport, row, seen, out) ==
  IF ~ Resolved[row].passes THEN [seen |-> seen, fbos |-> out, emit |-> FALSE]
  ELSE LET name  == Resolved[row].name
           email == row.email_match
           key   == FboKey(airport, name, email)
       IN  IF key \in seen THEN [seen |-> seen, fbos |-> out, emit |-> FALSE]
           ELSE [seen |-> seen \cup {key},
                 fbos |-> Append(out, FboRecord(airport, name, email)),
                 emit |-> TRUE]

(***************************************************************************)
(* fetch_url: one iteration of the retry loop                              *)
(***************************************************************************)
Response(status) == [kind |-> "response", code |-> status]

HTTPError(code) == [kind |-> "http_error", code |-> code]

TransportError == [kind |-> "exception", code |-> 0]

\* a backoff that does not escalate
RateLimitWait_flat(k) == 30

\* line 81: wait_time = (attempt + 1) * 30
RateLimitWait(k) == (k + 1) * 30

\* the flat wait also after the final attempt
RetryWait_always(k) == 5

\* lines 93-94: the flat wait, skipped after the final attempt
RetryWait(k) == IF k < retry_count - 1 THEN 5 ELSE 0

\* a 403 handled like any other HTTP error
Iteration_retryBlocked(outcome, k) ==
  IF outcome.kind = "response" /\ outcome.code = 200
  THEN [return |-> TRUE, body |-> TRUE, wait |-> 0]
  ELSE IF outcome.kind = "http_error" /\ outcome.code = 429
  THEN [return |-> FALSE, body |-> FALSE, wait |-> (k + 1) * 30]
  ELSE [return |-> FALSE, body |-> FALSE, wait |-> IF k < retry_count - 1 THEN 5 ELSE 0]

\* lines 75-94: what the iteration with index k does with the outcome of
\* its request: return (with the body or with ""), or sleep and go on
Iteration(outcome, k) ==
  IF outcome.kind = "response" /\ outcome.code = 200
  THEN [return |-> TRUE, body |-> TRUE, wait |-> 0]
  ELSE IF outcome.kind = "http_error" /\ outcome.code = 429
  THEN [return |-> FALSE, body |-> FALSE, wait |-> RateLimitWait(k)]
  ELSE IF outcome.kind = "http_error" /\ outcome.code = 403
  THEN [return |-> TRUE, body |-> FALSE, wait |-> 0]
  ELSE [return |-> FALSE, body |-> FALSE, wait |-> RetryWait(k)]

(***************************************************************************)
(* Pages served by the site                                                *)
(***************************************************************************)
\* the empty string: an empty body, and the result of a failed fetch
EmptyBody == [empty |-> TRUE, marker |-> FALSE, rows |-> <<>>]

\* a page without the 'FBO, Fuel Providers' heading
NoMarkerPage == [empty |-> FALSE, marker |-> FALSE, rows |-> <<>>]

\* a page with the heading; rows is rows[1:] of the split section
SectionPage(q) == [empty |-> FALSE, marker |-> TRUE, rows |-> q]

\* Airports whose page varies from run to run; the others have no FBO section
LiveCodes == { <<"K","P","D","K">> }

SitePages ==
  { EmptyBody, NoMarkerPage, SectionPage(<<>>), SectionPage(<<RowAtlantic>>),
    SectionPage(<<RowArgus, RowLogo>>) }

VARIABLES
  i,            \* main: index of the airport being processed (0-based)
  all_fbos,     \* main: the aggregate record sequence
  visited,      \* the airports whose iteration of main's loop has completed, in order
  pacing,       \* number of pacing sleeps main has performed
  delay,        \* main: the last pacing delay drawn (0 before the first)
  written,      \* the output file: whether it has been written, and its records
  attempt,      \* fetch_url: index of the next attempt
  requests,     \* fetch_url: HTTP requests issued for the current URL
  waits,        \* fetch_url: per request issued, the time slept after it (0: no sleep)
  outcomes,     \* fetch_url: the outcomes of the requests issued for the current URL
  html,         \* scrape_airport: the content fetch_url returned
  rows,         \* scrape_airport: rows[1:]
  r,            \* scrape_airport: number of rows consumed by the loop
  seen_fbos,    \* scrape_airport: keys seen
  fbos,         \* scrape_airport: records of this airport
  emitted,      \* the positions in rows of the rows that yielded a record
  site,         \* the page each live airport serves, the same at every fetch
  sinceReq,     \* time slept since the latest HTTP request
  sleepsSince,  \* number of sleeps since the latest HTTP request
  requested,    \* whether any HTTP request has been issued in this run
  pc            \* "fetch", "scrape", "rows", "returned", "write", "done"

vars ==
  <<i, all_fbos, visited, pacing, delay, written, attempt, requests, waits, outcomes,
    html, rows, r, seen_fbos, fbos, emitted, site, sinceReq, sleepsSince,
    requested, pc>>

mainVars == <<i, all_fbos, visited, pacing, delay, written>>

fetchVars == <<attempt, requests, waits, outcomes>>

scrapeVars == <<rows, r, seen_fbos, fbos, emitted>>

clockVars == <<sinceReq, sleepsSince, requested>>

NotWritten == [done |-> FALSE, records |-> <<>>]

\* the airport of the current iteration of main's loop
airport == AIRPORTS[i + 1]

\* the body a 200 response carries for an airport
PageOf(code) == IF code \in DOMAIN site THEN site[code] ELSE NoMarkerPage

\* pacing also after the last airport
PacingDue_always(k) == TRUE

\* no pacing between airports
PacingDue_never(k) == FALSE

\* line 224: if i < len(AIRPORTS) - 1
PacingDue(k) == k < Len(AIRPORTS) - 1

\* a loop that stops one airport early
LoopHasNext_short(k) == k < Len(AIRPORTS) - 1

\* line 217: the for loop has another airport
LoopHasNext(k) == k < Len(AIRPORTS)

Init ==
  /\ i = 0
  /\ all_fbos = <<>>
  /\ visited = <<>>
  /\ pacing = 0
  /\ delay = 0
  /\ written = NotWritten
  /\ attempt = 0
  /\ requests = 0
  /\ waits = <<>>
  /\ outcomes = <<>>
  /\ html = EmptyBody
  /\ rows = <<>>
  /\ r = 0
  /\ seen_fbos = {}
  /\ fbos = <<>>
  /\ emitted = <<>>
  /\ site \in [LiveCodes -> SitePages]
  /\ sinceReq = 0
  /\ sleepsSince = 0
  /\ requested = FALSE
  /\ pc = "fetch"

(***************************************************************************)
(* fetch_url, lines 73-96: one request and what follows it in the same     *)
(* iteration of the retry loop                                             *)
(***************************************************************************)
Request(outcome) ==
  LET it == Iteration(outcome, attempt)
      exhausted == attempt + 1 >= retry_count
  IN  /\ pc = "fetch"
      /\ attempt < retry_count
      /\ requests' = requests + 1
      /\ requested' = TRUE
      /\ outcomes' = Append(outcomes, outcome)
      /\ waits' = Append(waits, it.wait)
      /\ sinceReq' = it.wait
      /\ sleepsSince' = IF it.wait > 0 THEN 1 ELSE 0
      /\ attempt' = IF it.return THEN attempt ELSE attempt + 1
      /\ html' = IF it.return /\ it.body THEN PageOf(airport) ELSE EmptyBody
      /\ pc' = IF it.return \/ exhausted THEN "scrape" ELSE "fetch"
      /\ UNCHANGED <<mainVars, scrapeVars, site>>

\* urlopen answers 200
RequestOK == Request(Response(200))

\* urlopen answers a 2xx status other than 200
RequestNon200 == Request(Response(204))

\* urlopen raises HTTPError 429
RequestRateLimited == Request(HTTPError(429))

\* urlopen raises HTTPError 403
RequestBlocked == Request(HTTPError(403))

\* urlopen raises another HTTPError
RequestHTTPError == Request(HTTPError(500))

\* urlopen or read raises another exception (timeout, connection error)
RequestTransportError == Request(TransportError)

(***************************************************************************)
(* scrape_airport                                                          *)
(***************************************************************************)
\* lines 102-122: fetch_url has returned; locate the section, split the rows
LocateSection ==
  /\ pc = "scrape"
  /\ IF html.empty \/ ~ html.marker
     THEN /\ rows' = <<>>
          /\ pc' = "returned"
     ELSE /\ rows' = html.rows
          /\ pc' = "rows"
  /\ r' = 0
  /\ seen_fbos' = {}
  /\ fbos' = <<>>
  /\ emitted' = <<>>
  /\ attempt' = 0
  /\ requests' = 0
  /\ waits' = <<>>
  /\ outcomes' = <<>>
  /\ UNCHANGED <<mainVars, html, site, clockVars>>

\* lines 124-202: one iteration of the fragment loop
ProcessRow ==
  /\ pc = "rows"
  /\ r < Len(rows)
  /\ LET st == RowStep(airport, rows[r + 1], seen_fbos, fbos)
     IN  /\ seen_fbos' = st.seen
         /\ fbos' = st.fbos
         /\ emitted' = IF st.emit THEN Append(emitted, r + 1) ELSE emitted
  /\ r' = r + 1
  /\ UNCHANGED <<mainVars, fetchVars, html, rows, site, clockVars, pc>>

\* line 204: return fbos
ReturnFbos ==
  /\ pc = "rows"
  /\ r = Len(rows)
  /\ pc' = "returned"
  /\ UNCHANGED <<mainVars, fetchVars, html, scrapeVars, site, clockVars>>

(***************************************************************************)
(* main                                                                    *)
(***************************************************************************)
\* lines 220-226 and the loop step: extend the aggregate, pace, next airport
NextAirport ==
  /\ pc = "returned"
  /\ all_fbos' = all_fbos \o fbos
  /\ visited' = Append(visited, airport)
  /\ IF PacingDue(i)
     THEN \E d \in MinDelay..MaxDelay :
            /\ delay' = d
            /\ pacing' = pacing + 1
            /\ sinceReq' = sinceReq + d
            /\ sleepsSince' = sleepsSince + 1
     ELSE UNCHANGED <<delay, pacing, sinceReq, sleepsSince>>
  /\ i' = i + 1
  /\ pc' = IF LoopHasNext(i + 1) THEN "fetch" ELSE "write"
  /\ html' = EmptyBody
  /\ rows' = <<>>
  /\ r' = 0
  /\ seen_fbos' = {}
  /\ fbos' = <<>>
  /\ emitted' = <<>>
  /\ UNCHANGED <<written, fetchVars, site, requested>>

\* lines 238-255: the output file is written once, after the loop
WriteOutput ==
  /\ pc = "write"
  /\ written' = [done |-> TRUE, records |-> all_fbos]
  /\ pc' = "done"
  /\ UNCHANGED <<i, all_fbos, visited, pacing, delay, fetchVars, html, scrapeVars,
                 site, clockVars>>

Next ==
  \/ RequestOK
  \/ RequestNon200
  \/ RequestRateLimited
  \/ RequestBlocked
  \/ RequestHTTPError
  \/ RequestTransportError
  \/ LocateSection
  \/ ProcessRow
  \/ ReturnFbos
  \/ NextAirport
  \/ WriteOutput

Spec == Init /\ [][Next]_vars

\* the program is one sequential thread: every step that can be taken is taken
FairSpec == Spec /\ WF_vars(Next)

(***************************************************************************)
(* The fragment loop on its own: scrape_airport at the first listing of    *)
(* KPDK, whose fetch has returned a page with any rows                     *)
(***************************************************************************)
ScrapeIndex ==
  CHOOSE k \in 0..(Len(AIRPORTS) - 1) :
    /\ AIRPORTS[k + 1] \in LiveCodes
    /\ \A j \in 0..(k - 1) : AIRPORTS[j + 1] \notin LiveCodes

InitScrape ==
  /\ i = ScrapeIndex
  /\ all_fbos = <<>>
  /\ visited = SubSeq(AIRPORTS, 1, ScrapeIndex)
  /\ pacing = ScrapeIndex
  /\ delay = MinDelay
  /\ written = NotWritten
  /\ attempt = 0
  /\ requests = 0
  /\ waits = <<>>
  /\ outcomes = <<>>
  /\ rows \in RowSeqs
  /\ html = SectionPage(rows)
  /\ r = 0
  /\ seen_fbos = {}
  /\ fbos = <<>>
  /\ emitted = <<>>
  /\ site = [c \in LiveCodes |-> html]
  /\ sinceReq = 0
  /\ sleepsSince = 0
  /\ requested = TRUE
  /\ pc = "rows"

NextScrape ==
  \/ ProcessRow
  \/ ReturnFbos

SpecScrape == InitScrape /\ [][NextScrape]_vars

(***************************************************************************)
(* Properties                                                              *)
(***************************************************************************)
Range(q) == {q[k] : k \in 1..Len(q)}

RateLimited == HTTPError(429)

Blocked == HTTPError(403)

\* a failure that is neither a rate limit nor a block
Transient(o) ==
  \/ o.kind = "exception"
  \/ o.kind = "http_error" /\ o.code \notin {429, 403}
  \/ o.kind = "response" /\ o.code # 200

\* the step issues an HTTP request whose outcome is o
Issues(o) ==
  /\ pc = "fetch"
  /\ requests' = requests + 1
  /\ outcomes' = Append(outcomes, o)

\* C1 as stated: whenever the attempt with index k gets HTTP 429 the fetcher
\* has waited 30*(k+1) after it, without the flat wait, and a retry follows;
\* after 429, 429, 200 the waits are 30 and 60 and the body is returned.
C1_RateLimitedAlwaysRetried ==
  /\ \A k \in 1..Len(outcomes) :
       outcomes[k] = RateLimited =>
         /\ waits[k] = 30 * k
         /\ k = Len(outcomes) => (pc = "fetch" /\ attempt < retry_count)
  /\ (pc = "scrape" /\ outcomes = <<RateLimited, RateLimited, Response(200)>>) =>
       (waits = <<30, 60, 0>> /\ html = PageOf(airport))

\* C1 amended: the attempt with index k that gets HTTP 429 is followed by a
\* wait of exactly 30*(k+1) and no flat wait; for k < 2 the next step of the
\* fetcher is the request of attempt k+1, for k = 2 the fetch returns empty
\* content without another request; after 429, 429, 200 the waits are 30 and
\* 60 and the body of the 200 response is returned.
C1_RateLimitBackoff ==
  /\ [][Issues(RateLimited) =>
          /\ waits' = Append(waits, 30 * (requests + 1))
          /\ sinceReq' = 30 * (requests + 1)
          /\ sleepsSince' = 1
          /\ IF requests < retry_count - 1
             THEN pc' = "fetch" /\ attempt' = requests + 1
             ELSE pc' = "scrape" /\ html' = EmptyBody]_vars
  /\ []((pc = "scrape" /\ outcomes = <<RateLimited, RateLimited, Response(200)>>) =>
          (waits = <<30, 60, 0>> /\ html = PageOf(airport)))

C1_Witness ==
  /\ pc = "scrape"
  /\ outcomes = <<RateLimited, RateLimited, Response(200)>>
  /\ waits = <<30, 60, 0>>
  /\ html = PageOf(airport)
  /\ ~ html.empty

\* C2: an HTTP 403 on any attempt is the last request of the fetch: the
\* fetch has returned empty content, and the fetcher has not slept after it.
C2_BlockedEndsFetch ==
  \A k \in 1..Len(outcomes) :
    outcomes[k] = Blocked =>
      /\ k = Len(outcomes)
      /\ k = requests
      /\ pc = "scrape"
      /\ html = EmptyBody
      /\ waits[k] = 0
      /\ sinceReq = 0
      /\ sleepsSince = 0

C2_Witness ==
  /\ pc = "scrape"
  /\ outcomes = <<HTTPError(500), Blocked>>
  /\ waits = <<5, 0>>
  /\ html = EmptyBody

\* C3: a fetch never issues more than 3 requests; when every outcome is a
\* transient failure the waits after the requests are 5, 5 and none, and
\* the fetch returns, with empty content, exactly after the third request.
C3_TransientRetries ==
  /\ requests <= retry_count
  /\ requests = Len(outcomes)
  /\ (\A k \in 1..Len(outcomes) : Transient(outcomes[k])) =>
       /\ waits = SubSeq(<<5, 5, 0>>, 1, Len(outcomes))
       /\ pc = "fetch" => requests < 3
       /\ pc = "scrape" => (requests = 3 /\ html = EmptyBody)

C3_Witness ==
  /\ pc = "scrape"
  /\ outcomes = <<Response(204), HTTPError(500), TransportError>>
  /\ requests = 3
  /\ waits = <<5, 5, 0>>

\* C4: every run of main reaches the end: the airports whose iteration has
\* completed are always the first i entries of the list in list order, an
\* airport whose fetch returned empty content adds no record, the write
\* happens only after the last entry, and the run reaches the state where
\* every entry has been processed and the output is written.
C4_RunCompletes ==
  /\ [](visited = SubSeq(AIRPORTS, 1, i))
  /\ [](pc \in {"write", "done"} => i = Len(AIRPORTS))
  /\ [][(pc = "returned" /\ html.empty) => all_fbos' = all_fbos]_vars
  /\ <>(pc = "done" /\ visited = AIRPORTS /\ written = [done |-> TRUE, records |-> all_fbos])

C4_Witness ==
  /\ pc = "done"
  /\ visited = AIRPORTS
  /\ written = [done |-> TRUE, records |-> all_fbos]
  /\ Len(written.records) = 1

\* the deduplication key of a record
RecordKey(rec) ==
  rec.airport_code \o <<":">> \o (IF rec.email # <<>> THEN rec.email ELSE rec.name)

\* C5: at every point of the fragment loop no two records of fbos have the
\* same deduplication key.
C5_KeysDistinct ==
  \A a, b \in 1..Len(fbos) : a # b => RecordKey(fbos[a]) # RecordKey(fbos[b])

C5_Witness ==
  /\ pc = "rows"
  /\ Len(fbos) >= 2
  /\ \E k \in 1..r : PassesFilters(rows[k]) /\ k \notin Range(emitted)

SameEmail(j, k) ==
  /\ rows[j].email_match # NoMatch
  /\ rows[j].email_match = rows[k].email_match

\* C6 as stated: of two rows with the same non-empty email the later one
\* never yields a record, whatever happened to the earlier one.
C6_LaterNeverEmitted ==
  \A j, k \in 1..r : (j < k /\ SameEmail(j, k)) => k \notin Range(emitted)

\* C6 amended: of two rows with the same non-empty email, when the earlier
\* one passes the identity check, the blacklist filter and the minimum-length
\* filter, the later one never yields a record.
C6_FirstPassingWins ==
  \A j, k \in 1..r :
    (j < k /\ SameEmail(j, k) /\ PassesFilters(rows[j])) => k \notin Range(emitted)

C6_Witness ==
  /\ r >= 2
  /\ SameEmail(1, 2)
  /\ PassesFilters(rows[1])
  /\ PassesFilters(rows[2])
  /\ emitted = <<1>>

\* the row passes the identity check, has no caption, and its logo alt text
\* is "ARGUS Platinum"
BadgeOnly(row) ==
  /\ IdentityOk(row)
  /\ row.more_info = NoMatch
  /\ row.img_match = ArgusPlatinum

\* C7 as stated: a row that passes the identity check, has no caption and
\* has the logo alt text "ARGUS Platinum" yields no record.
C7_BadgeRowSkipped ==
  \A k \in Range(emitted) : ~ BadgeOnly(rows[k])

\* C7 amended: such a row is never named by its alt text; its name is the
\* ID-derived name, and it yields a record, carrying that name, exactly when
\* the ID-derived name is not blacklisted, has at least 4 characters and its
\* key has not been seen.
C7_BadgeFallsBackToId ==
  [][(pc = "rows" /\ r' = r + 1 /\ BadgeOnly(rows[r + 1])) =>
       LET row == rows[r + 1]
           idn == IdName(row.id_match)
           rec == [airport_code |-> airport, name |-> idn, email |-> row.email_match]
           kept == /\ ~ Blacklisted(idn)
                   /\ Len(idn) >= 4
                   /\ RecordKey(rec) \notin seen_fbos
       IN  /\ kept => fbos' = Append(fbos, rec)
           /\ ~ kept => fbos' = fbos]_vars

C7_Witness ==
  /\ Len(emitted) >= 1
  /\ BadgeOnly(rows[emitted[1]])
  /\ fbos[1].name = <<"J","e","t"," ","A","v","i","a","t","i","o","n"," ","E","a","s","t">>

\* C8: the records main writes hold no two entries with the same airport
\* code and the same deduplication key.
C8_AggregateDistinct ==
  pc = "done" =>
    \A a, b \in 1..Len(written.records) :
      a # b => RecordKey(written.records[a]) # RecordKey(written.records[b])

\* C9: main has slept once, for 2 to 4 time units, after each airport but
\* the last: i sleeps when the airport with index i is in progress, and
\* Len(AIRPORTS) - 1 sleeps once the loop has ended; the first request of
\* every airport but the first comes after that sleep.
C9_PacingSleeps ==
  /\ pacing = (IF i < Len(AIRPORTS) THEN i ELSE Len(AIRPORTS) - 1)
  /\ pacing > 0 => delay \in MinDelay..MaxDelay
  /\ (pc = "fetch" /\ requests = 0 /\ i > 0) => (sleepsSince >= 1 /\ sinceReq >= delay)

C9_Witness ==
  /\ pc = "done"
  /\ pacing = Len(AIRPORTS) - 1
  /\ delay = 3

\* C10: every HTTP request but the first of the run is issued after at
\* least one sleep, and at least 2 time units of sleep, since the request
\* before it.
C10_NoBackToBackRequests ==
  [][(pc = "fetch" /\ requests' = requests + 1 /\ requested) =>
       (sleepsSince >= 1 /\ sinceReq >= 2)]_vars

C10_Witness ==
  /\ pc = "fetch"
  /\ requested
  /\ i > 0
  /\ requests = 0
  /\ sleepsSince = 1
  /\ sinceReq = MinDelay

=============================================================================
